---- MODULE Spec2Model ----
(***************************************************************************)
(* Model of the authentication subsystem of rust-actix-example:            *)
(*   - the token codec        (src/src/auth.rs: create_jwt, decode_jwt)    *)
(*   - the password hasher    (src/src/auth.rs: hash, mask_str)            *)
(*   - the identity extractor (src/src/extractors.rs)                      *)
(*   - the auth gate          (src/src/middleware/auth.rs)                 *)
(*   - login and logout      (src/src/handlers/auth.rs) over the users    *)
(*     table                 (src/src/models/user.rs), for one session     *)
(*   - the gate and the extractor on requests handled at the same time     *)
(* Strings are modelled as sequences: a salt is a sequence of bytes, a     *)
(* token is the sequence of its '.'-separated segments.  Time is the unix  *)
(* timestamp in whole seconds, as returned by Utc::now().timestamp().      *)
(***************************************************************************)
EXTENDS Integers, Sequences, FiniteSets, TLC

VARIABLES
    config,         \* CONFIG: the lazy_static configuration, fixed after start
    wrapped,        \* the paths whose service the App wraps in Authentication,
                    \*   fixed when the App is built
    record_salt,    \* the record salt each call site of hash passes with the
                    \*   password: [create, login], fixed when the server is built
    now,            \* Utc::now().timestamp()
    \* ---- token codec exercised directly
    claim,          \* the PrivateClaim handed to create_jwt
    token,          \* the token string under test
    tokenOrigin,    \* "none" | "created" | "foreign" | "tampered" | "malformed"
    decoded,        \* result of the last decode_jwt(token), or NoResult
    decodedAt,      \* clock value read by that decode_jwt, or -1
    \* ---- password hasher exercised directly
    hashLast,       \* the latest call of hash: [password, salt, masked, result],
                    \*   or NoResult
    hashCalls,      \* number of calls of hash so far
    \* ---- one request through the server pipeline
    pc,             \* "idle" | "gate" | "service" | "blocked" | "updated" |
                    \*   "resumed" | "respond" | "done" | "panicked"
    req,            \* the request received: [method, path, identity]
    params,         \* the JSON body of the request, or NoBody
    private_claim,  \* AuthenticationMiddleware::call: result of decode_jwt, or NoResult
    gateAt,         \* clock value read by the gate's decode_jwt, or -1
    unauthorized,   \* AuthenticationMiddleware::call: "unset" | "yes" | "no"
    calls,          \* how often the gate invoked the wrapped service for req
    forwarded,      \* the request the gate handed to the wrapped service
    handler,        \* the business handler that ran for req, or "none"
    authUser,       \* result of AuthUser::from_request for req, or NoResult
    authUserAt,     \* clock value read by the extractor's decode_jwt, or -1
    awaited,        \* what web::block(..).await gave the handler, or NoResult
    fault,          \* what went wrong in the awaited database call: "none" |
                    \*   "pool" | "statement" | "blocking"
    handlerErr,     \* the ApiError the handler returned, or NoResult
    serviceResp,    \* what the wrapped service answered, or NoResult
    response,       \* what the client gets, or NoResult
    \* ---- one client session against the server and its users table
    session,        \* the identity string the session transport holds, or NoIdentity
    users,          \* the users table: a set of rows [id, email, password]
    issued,         \* the token the latest login issued, if no logout followed
    issuedAt,       \* clock value read by that login's PrivateClaim::new, or -1
    loggedOut,      \* what the latest logout found, if no login followed:
                    \* "no" | "cleared" (an identity) | "nothing"
    \* ---- requests handled at the same time, one per worker
    conc,           \* worker -> [pc, req, private_claim, gateAt, unauthorized,
                    \*            authUser, authUserAt, response]
    \* ---- the shared application state (state.rs)
    hashmap,        \* the State inside the Mutex: key -> value, or None
    mutex,          \* the worker that holds the MutexGuard, or 0
    ops,            \* worker -> its call of set/get/delete:
                    \*   [pc, op, key, value, ret, expect, before, after]
    linear,         \* the map after the calls so far, taken one at a time in
                    \* the order in which they acquired the mutex
    \* ---- the users table accessed directly (models/user.rs)
    crud,           \* the latest create/find/update/delete that returned:
                    \*   [op, id, db, stored, result, storedAfter], or NoResult
    updating        \* worker -> the UpdateUser of its call of update that has
                    \*   run its UPDATE and not yet its find, or NoResult

codecVars == <<claim, token, tokenOrigin, decoded, decodedAt>>
hashVars == <<hashLast, hashCalls>>
reqVars == <<pc, req, params, private_claim, gateAt, unauthorized, calls, forwarded,
             handler, authUser, authUserAt, awaited, fault, handlerErr, serviceResp,
             response>>
sessVars == <<session, users, issued, issuedAt, loggedOut>>
stateVars == <<hashmap, mutex, ops, linear>>
crudVars == <<crud, updating>>
vars == <<config, wrapped, record_salt, now, codecVars, hashVars, reqVars, sessVars, conc, stateVars, crudVars>>

-----------------------------------------------------------------------------
(* Bounds *)

MaxTime == 2            \* the clock runs over 0..MaxTime
MaxSaltLen == 9         \* longest record salt, in bytes
MaxCalls == 3           \* calls of hash in one run
MaxSleeps == 1          \* times the clock jumps by the token lifetime

-----------------------------------------------------------------------------
(* Domains of the inputs *)

Keys == {"K1", "K2"}
UserIds == {"u1", "u2"}
Emails == {"a@b.com", "c@d.com"}
Times == 0..MaxTime

NoResult == [none |-> TRUE]
Ok(v) == [ok |-> TRUE, val |-> v]
Err(kind, msg) == [ok |-> FALSE, err |-> kind, msg |-> msg]
Panic(msg) == [ok |-> FALSE, err |-> "panic", msg |-> msg]
IsOk(r) == r # NoResult /\ r.ok
IsErr(r) == r # NoResult /\ ~r.ok

\* struct PrivateClaim { user_id, email, exp }
PrivateClaim == [user_id : UserIds, email : Emails, exp : Times]

-----------------------------------------------------------------------------
(* jsonwebtoken, as used by create_jwt / decode_jwt *)

\* Header::default(): HS256, typ JWT
Header_default == [alg |-> "HS256", typ |-> "JWT"]

\* Validation::default(): HS256 only, exp validated, leeway of Leeway seconds
Leeway == 0
Validation_default == [algorithms |-> {"HS256"}, validate_exp |-> TRUE, leeway |-> Leeway]

\* A token string is the sequence of its '.'-separated segments; a segment is
\* the base64 text of a header, of a JSON object, of a signature, or other text.
header_part(h) == [part |-> "header", alg |-> h.alg, typ |-> h.typ]
claims_part(json) == [part |-> "claims", members |-> json]
signature_part(sig) == [part |-> "signature", mac |-> sig.mac, over |-> sig.over]
OtherSegment == [part |-> "text"]

\* serde serialisation of a PrivateClaim: the JSON object as a list of members
to_json(c) ==
    << [name |-> "user_id", str |-> c.user_id],
       [name |-> "email", str |-> c.email],
       [name |-> "exp", num |-> c.exp] >>

\* a JSON member list has a member `name` holding a string / a number
has_str(json, name) ==
    \E i \in DOMAIN json : json[i].name = name /\ "str" \in DOMAIN json[i]
has_num(json, name) ==
    \E i \in DOMAIN json : json[i].name = name /\ "num" \in DOMAIN json[i]
str_of(json, name) ==
    json[CHOOSE i \in DOMAIN json : json[i].name = name /\ "str" \in DOMAIN json[i]].str
num_of(json, name) ==
    json[CHOOSE i \in DOMAIN json : json[i].name = name /\ "num" \in DOMAIN json[i]].num

\* serde deserialisation into PrivateClaim: every field present and well typed
from_json(json) ==
    IF /\ has_str(json, "user_id") /\ str_of(json, "user_id") \in UserIds
       /\ has_str(json, "email")
       /\ has_num(json, "exp")
    THEN Ok([user_id |-> str_of(json, "user_id"),
             email |-> str_of(json, "email"),
             exp |-> num_of(json, "exp")])
    ELSE Err("Json", "Json")

\* HMAC-SHA256 of the message under the key, as an ideal MAC
sign(message, key) == [mac |-> key, over |-> message]

\* jsonwebtoken::encode: header '.' claims '.' signature
encode(header, claims, key) ==
    LET message == <<header_part(header), claims_part(to_json(claims))>>
    IN  message \o <<signature_part(sign(message, key))>>

\* jsonwebtoken validation of the registered claims at clock value t
validate(json, options, t) ==
    IF options.validate_exp
    THEN IF ~has_num(json, "exp")
         THEN Err("ExpiredSignature", "ExpiredSignature")
         ELSE IF num_of(json, "exp") < t - options.leeway
              THEN Err("ExpiredSignature", "ExpiredSignature")
              ELSE Ok(json)
    ELSE Ok(json)

\* jsonwebtoken::decode::<PrivateClaim> at clock value t
decode(tok, key, validation, t) ==
    IF Len(tok) # 3
    THEN Err("InvalidToken", "InvalidToken")
    ELSE IF tok[1].part # "header"
    THEN Err("Base64", "Base64")
    ELSE IF tok[1].alg \notin validation.algorithms
    THEN Err("InvalidAlgorithm", "InvalidAlgorithm")
    ELSE IF tok[3] # signature_part(sign(<<tok[1], tok[2]>>, key))
    THEN Err("InvalidSignature", "InvalidSignature")
    ELSE IF tok[2].part # "claims"
    THEN Err("Base64", "Base64")
    ELSE IF ~from_json(tok[2].members).ok
    THEN from_json(tok[2].members)
    ELSE IF ~validate(tok[2].members, validation, t).ok
    THEN validate(tok[2].members, validation, t)
    ELSE from_json(tok[2].members)

-----------------------------------------------------------------------------
(* src/src/auth.rs *)

\* chrono: Duration::hours(h) is h * 3600 seconds
SecondsPerHour == 3600

\* PrivateClaim::new with the lifetime taken as minutes
PrivateClaim_new_minutes(user_id, email) ==
    [user_id |-> user_id, email |-> email, exp |-> now + config.jwt_expiration * 60]

\* PrivateClaim::new: exp = (Utc::now() + Duration::hours(jwt_expiration)).timestamp()
PrivateClaim_new(user_id, email) ==
    [user_id |-> user_id, email |-> email,
     exp |-> now + config.jwt_expiration * SecondsPerHour]

\* what jsonwebtoken::encode returns: the token ("none"), or the error of
\* serialising the claims ("Json")
EncodeOutcomes == {"none", "Json"}

\* create_jwt under an explicit signing key: the token, or the error of
\* encode mapped to CannotEncodeJwtToken(e.to_string())
create_jwt_with(claims, jwt_key, outcome) ==
    IF outcome = "none"
    THEN Ok(encode(Header_default, claims, jwt_key))
    ELSE Err("CannotEncodeJwtToken", outcome)

\* create_jwt signing with the session key instead of the token key
create_jwt_session_key(claims, outcome) ==
    create_jwt_with(claims, config.session_key, outcome)

\* create_jwt: sign with CONFIG.jwt_key
create_jwt(claims, outcome) == create_jwt_with(claims, config.jwt_key, outcome)

\* decode_jwt verifying under whatever key the token names as its signer
decode_jwt_any_key(tok, t) ==
    LET key == IF Len(tok) = 3 /\ tok[3].part = "signature" THEN tok[3].mac
               ELSE config.jwt_key
        r == decode(tok, key, Validation_default, t)
    IN  IF r.ok THEN Ok(r.val) ELSE Err("CannotDecodeJwtToken", r.msg)

\* decode_jwt at clock value t: every library error becomes CannotDecodeJwtToken
decode_jwt_at(tok, t) ==
    LET r == decode(tok, config.jwt_key, Validation_default, t)
    IN  IF r.ok THEN Ok(r.val) ELSE Err("CannotDecodeJwtToken", r.msg)

\* decode_jwt: the clock is read inside the call
decode_jwt(tok) == decode_jwt_at(tok, now)

-----------------------------------------------------------------------------
(* Token strings other than the server's own *)

\* the empty string: a single segment, and that one empty
EmptyString == << [part |-> "empty"] >>

SampleClaim == [user_id |-> "u1", email |-> "a@b.com", exp |-> MaxTime]

\* strings that do not have the three-segment shape, or whose segments are
\* not the base64 text of a header and of a JSON object
MalformedTokens ==
    { EmptyString, <<OtherSegment>>, <<OtherSegment, OtherSegment, OtherSegment>> }
    \cup { SubSeq(encode(Header_default, SampleClaim, k), 1, 2) : k \in Keys }
    \cup { encode(Header_default, SampleClaim, k) \o <<OtherSegment>> : k \in Keys }
    \cup { <<header_part(Header_default), OtherSegment,
             signature_part(sign(<<header_part(Header_default), OtherSegment>>, k))>> : k \in Keys }

\* correctly signed under k, but the payload lacks a field of PrivateClaim
BadPayloadTokens ==
    { LET message == <<header_part(Header_default), claims_part(j)>>
      IN  message \o <<signature_part(sign(message, k))>> :
        j \in { << [name |-> "user_id", str |-> "u1"],
                    [name |-> "email", str |-> "a@b.com"] >>,
                 << [name |-> "user_id", str |-> "u1"],
                    [name |-> "exp", num |-> MaxTime] >> },
        k \in Keys }

\* the payload of one token under the signature of another
TamperedTokens ==
    { <<header_part(Header_default), claims_part(to_json(c)),
        signature_part(sign(<<header_part(Header_default), claims_part(to_json(d))>>, k))>> :
        c \in {x \in PrivateClaim : x.user_id = "u1" /\ x.exp = MaxTime},
        d \in {x \in PrivateClaim : x.user_id = "u2" /\ x.exp = MaxTime},
        k \in Keys }

-----------------------------------------------------------------------------
(* Password hasher, src/src/auth.rs *)

\* String::from_utf8 on byte strings made of one- and two-byte sequences
RECURSIVE is_utf8(_)
is_utf8(b) ==
    IF b = <<>> THEN TRUE
    ELSE IF b[1] < 128 THEN is_utf8(Tail(b))
    ELSE IF b[1] \in 194..223 /\ Len(b) >= 2 /\ b[2] \in 128..191
         THEN is_utf8(Tail(Tail(b)))
    ELSE FALSE

\* a mask loop that stays on the last secret byte instead of starting over
RECURSIVE mask_loop_no_cycle(_, _, _, _)
mask_loop_no_cycle(strb, maskb, i, m) ==
    IF i < Len(strb)
    THEN LET m0 == IF m >= Len(maskb) THEN Len(maskb) - 1 ELSE m
         IN  IF m0 >= Len(maskb) \/ m0 < 0
             THEN Panic("index out of bounds")
             ELSE mask_loop_no_cycle(
                    [strb EXCEPT ![i + 1] = ((strb[i + 1] + maskb[m0 + 1]) % 256) % 128],
                    maskb, i + 1, m0 + 1)
    ELSE Ok(strb)

\* a mask loop that keeps the wrapped 8-bit sum without reducing it below 128
RECURSIVE mask_loop_wrapping_only(_, _, _, _)
mask_loop_wrapping_only(strb, maskb, i, m) ==
    IF i < Len(strb)
    THEN LET m0 == IF m >= Len(maskb) THEN 0 ELSE m
         IN  IF m0 >= Len(maskb)
             THEN Panic("index out of bounds")
             ELSE mask_loop_wrapping_only(
                    [strb EXCEPT ![i + 1] = (strb[i + 1] + maskb[m0 + 1]) % 256],
                    maskb, i + 1, m0 + 1)
    ELSE Ok(strb)

\* the while loop of mask_str; i and m count from 0 as in the source
RECURSIVE mask_loop(_, _, _, _)
mask_loop(strb, maskb, i, m) ==
    IF i < Len(strb)
    THEN LET m0 == IF m >= Len(maskb) THEN 0 ELSE m
         IN  IF m0 >= Len(maskb)
             THEN Panic("index out of bounds")
             ELSE mask_loop(
                    [strb EXCEPT ![i + 1] = ((strb[i + 1] + maskb[m0 + 1]) % 256) % 128],
                    maskb, i + 1, m0 + 1)
    ELSE Ok(strb)

\* mask_str: mask the bytes, then String::from_utf8(strb).unwrap()
mask_str(str, mask) ==
    LET r == mask_loop(str, mask, 0, 0)
    IN  IF ~r.ok THEN r
        ELSE IF is_utf8(r.val) THEN Ok(r.val)
        ELSE Panic("called Result::unwrap() on an Err value: FromUtf8Error")

\* argon2rs asserts a salt of at least 8 bytes
Argon2MinSalt == 8

\* argon2rs::argon2i_simple: the 32-byte Argon2i digest, as an ideal hash
argon2i_simple(password, salt) ==
    IF Len(salt) < Argon2MinSalt
    THEN Panic("assertion failed: 8 <= s.len()")
    ELSE Ok([argon2i |-> password, salt |-> salt])

\* the digest bytes, each formatted with {:02x}
to_hex(digest) == [hex |-> digest]

\* hash: mask the salt with CONFIG.auth_salt, run argon2i, hex-encode
hash(password, salt) ==
    LET masked == mask_str(salt, config.auth_salt)
    IN  IF ~masked.ok THEN masked
        ELSE LET digest == argon2i_simple(password, masked.val)
             IN  IF ~digest.ok THEN digest ELSE Ok(to_hex(digest.val))

-----------------------------------------------------------------------------
(* Configurations *)

JwtExpiration == 2

\* a pattern repeated up to n bytes
RECURSIVE repeat(_, _)
repeat(pattern, n) ==
    IF n < Len(pattern) THEN SubSeq(pattern, 1, n)
    ELSE pattern \o repeat(pattern, n - Len(pattern))

\* values of AUTH_SALT: empty, shorter than a record salt, with a two-byte character
AuthSalts == { <<>>, <<109, 97>>, <<195, 169, 49>> }

Configs ==
    [jwt_key : Keys, session_key : {"S1"}, jwt_expiration : {JwtExpiration},
     auth_salt : AuthSalts]

Passwords == {"password", "123456"}

\* record salts: valid strings of 0, 1, 7, 8 and MaxSaltLen bytes
SaltLens == {0, 1, Argon2MinSalt - 1, Argon2MinSalt, MaxSaltLen}
Salts ==
    { s \in { repeat(p, n) : p \in { <<48>>, <<122, 65>>, <<195, 169>> }, n \in SaltLens } :
        is_utf8(s) }

-----------------------------------------------------------------------------
(* The clock *)

Tick ==
    /\ now % SecondsPerHour < MaxTime
    /\ now' = now + 1
    /\ UNCHANGED <<config, wrapped, record_salt, stateVars, crudVars, conc, sessVars, codecVars, hashVars, reqVars>>

CodecIdle ==
    /\ claim = SampleClaim
    /\ token = EmptyString
    /\ tokenOrigin = "none"
    /\ decoded = NoResult
    /\ decodedAt = -1

HashIdle ==
    /\ hashLast = NoResult
    /\ hashCalls = 0

\* Option<String>::None; every string has at least one segment
NoIdentity == <<>>
NoRequest == [method |-> "", path |-> "", identity |-> NoIdentity]

\* a request without a JSON body
NoBody == [none |-> TRUE]

ReqIdle ==
    /\ pc = "idle"
    /\ req = NoRequest
    /\ params = NoBody
    /\ private_claim = NoResult
    /\ gateAt = -1
    /\ unauthorized = "unset"
    /\ calls = 0
    /\ forwarded = NoRequest
    /\ handler = "none"
    /\ authUser = NoResult
    /\ authUserAt = -1
    /\ awaited = NoResult
    /\ fault = "none"
    /\ handlerErr = NoResult
    /\ serviceResp = NoResult
    /\ response = NoResult

\* HttpServer::workers(2)
NumWorkers == 2
Workers == 1..NumWorkers

\* a worker that holds no request
WorkerIdle ==
    [pc |-> "idle", req |-> NoRequest, private_claim |-> NoResult, gateAt |-> -1,
     unauthorized |-> "unset", authUser |-> NoResult, authUserAt |-> -1,
     response |-> NoResult]

ConcIdle == conc = [w \in Workers |-> WorkerIdle]

\* Option<T>::None for the values of the application state
None == "None"
StateKeys == {"testing", "other"}
StateValues == {"123", "456"}

\* new_state: State::<T>::new(), an empty HashMap
new_state == [k \in StateKeys |-> None]

\* a worker that is not inside set, get or delete
OpIdle ==
    [pc |-> "idle", op |-> "none", key |-> "", value |-> None, ret |-> None,
     expect |-> None, before |-> new_state, after |-> new_state]

StateIdle ==
    /\ hashmap = new_state
    /\ mutex = 0
    /\ ops = [w \in Workers |-> OpIdle]
    /\ linear = new_state

CrudIdle ==
    /\ crud = NoResult
    /\ updating = [w \in Workers |-> NoResult]

\* a fresh client session against an empty users table
SessIdle ==
    /\ session = NoIdentity
    /\ users = {}
    /\ issued = NoIdentity
    /\ issuedAt = -1
    /\ loggedOut = "no"

-----------------------------------------------------------------------------
(* The token codec exercised directly, as by the unit tests of auth.rs *)

InitCodec ==
    /\ config \in {c \in Configs : c.auth_salt = <<109, 97>>}
    /\ wrapped = {}
    /\ record_salt \in [create : {repeat(<<122, 65>>, Argon2MinSalt)},
                        login : {repeat(<<122, 65>>, Argon2MinSalt)}]
    /\ now = 0
    /\ claim \in PrivateClaim
    /\ token = EmptyString
    /\ tokenOrigin = "none"
    /\ decoded = NoResult
    /\ decodedAt = -1
    /\ HashIdle
    /\ ReqIdle
    /\ SessIdle
    /\ ConcIdle
    /\ StateIdle
    /\ CrudIdle

\* create_jwt(claim) under the server's configuration; when it fails there
\* is no token to present
CreateJwt ==
    /\ \E outcome \in EncodeOutcomes :
         LET jwt == create_jwt(claim, outcome)
         IN  /\ token' = IF jwt.ok THEN jwt.val ELSE EmptyString
             /\ tokenOrigin' = IF jwt.ok THEN "created" ELSE "none"
    /\ decoded' = NoResult
    /\ decodedAt' = -1
    /\ UNCHANGED <<config, wrapped, record_salt, stateVars, crudVars, conc, sessVars, now, claim, hashVars, reqVars>>

\* a token created for the same claim by a server configured with another key
CreateForeignJwt ==
    /\ \E k \in Keys \ {config.jwt_key} :
          token' = create_jwt_with(claim, k, "none").val
    /\ tokenOrigin' = "foreign"
    /\ decoded' = NoResult
    /\ decodedAt' = -1
    /\ UNCHANGED <<config, wrapped, record_salt, stateVars, crudVars, conc, sessVars, now, claim, hashVars, reqVars>>

\* a client presents a token with a payload that its signature does not cover
PresentTampered ==
    /\ token' \in TamperedTokens
    /\ tokenOrigin' = "tampered"
    /\ decoded' = NoResult
    /\ decodedAt' = -1
    /\ UNCHANGED <<config, wrapped, record_salt, stateVars, crudVars, conc, sessVars, now, claim, hashVars, reqVars>>

\* a client presents a string that is not a well-formed token
PresentMalformed ==
    /\ token' \in MalformedTokens \cup BadPayloadTokens
    /\ tokenOrigin' = "malformed"
    /\ decoded' = NoResult
    /\ decodedAt' = -1
    /\ UNCHANGED <<config, wrapped, record_salt, stateVars, crudVars, conc, sessVars, now, claim, hashVars, reqVars>>

\* decode_jwt(token)
DecodeJwt ==
    /\ tokenOrigin # "none"
    /\ decoded' = decode_jwt(token)
    /\ decodedAt' = now
    /\ UNCHANGED <<config, wrapped, record_salt, stateVars, crudVars, conc, sessVars, now, claim, token, tokenOrigin, hashVars, reqVars>>

NextCodec ==
    \/ Tick
    \/ CreateJwt
    \/ CreateForeignJwt
    \/ PresentTampered
    \/ PresentMalformed
    \/ DecodeJwt

SpecCodec == InitCodec /\ [][NextCodec]_vars

-----------------------------------------------------------------------------
(* The password hasher exercised directly, as by the unit tests of auth.rs *)

InitHash ==
    /\ config \in {c \in Configs : c.jwt_key = "K1"}
    /\ wrapped = {}
    /\ record_salt \in [create : {repeat(<<122, 65>>, Argon2MinSalt)},
                        login : {repeat(<<122, 65>>, Argon2MinSalt)}]
    /\ now = 0
    /\ CodecIdle
    /\ HashIdle
    /\ ReqIdle
    /\ SessIdle
    /\ ConcIdle
    /\ StateIdle
    /\ CrudIdle

\* hash(password, salt)
CallHash ==
    /\ hashCalls < MaxCalls
    /\ \E password \in Passwords, salt \in Salts :
         hashLast' = [password |-> password, salt |-> salt,
                      masked |-> mask_str(salt, config.auth_salt),
                      result |-> hash(password, salt)]
    /\ hashCalls' = hashCalls + 1
    /\ UNCHANGED <<config, wrapped, record_salt, stateVars, crudVars, conc, sessVars, now, codecVars, reqVars>>

NextHash ==
    \/ Tick
    \/ CallHash

SpecHash == InitHash /\ [][NextHash]_vars

-----------------------------------------------------------------------------
(* Requests: src/src/middleware/auth.rs, src/src/extractors.rs *)

LoginPath == "/api/v1/auth/login"
UserPath == "/api/v1/user"

\* format!("{}/{}", PATH, user_id): the path of one user
user_path(user_id) == UserPath \o "/" \o user_id

\* Path<Uuid>: the id in the path of one user
path_id(path) == CHOOSE user_id \in UserIds : path = user_path(user_id)

UserPaths == { user_path(id) : id \in UserIds }

\* the requests the tests send, and those of update_user and delete_user on
\* the path of one user: the method and path of every route
Endpoints ==
    { [method |-> "POST", path |-> LoginPath],
      [method |-> "GET", path |-> "/api/v1/auth/logout"],
      [method |-> "GET", path |-> "/health"],
      [method |-> "GET", path |-> UserPath],
      [method |-> "POST", path |-> UserPath] }
    \cup [method : {"GET", "PUT", "DELETE"}, path : UserPaths]

Paths == { e.path : e \in Endpoints }

\* the route table: the handler registered for a method and a path; a
\* request no route matches goes to the default service
routes(method, path) ==
    CASE method = "POST" /\ path = LoginPath -> "login"
      [] method = "GET" /\ path = "/api/v1/auth/logout" -> "logout"
      [] method = "GET" /\ path = "/health" -> "get_health"
      [] method = "GET" /\ path = UserPath -> "get_users"
      [] method = "POST" /\ path = UserPath -> "create_user"
      [] method = "GET" /\ path \in UserPaths -> "get_user"
      [] method = "PUT" /\ path \in UserPaths -> "update_user"
      [] method = "DELETE" /\ path \in UserPaths -> "delete_user"
      [] OTHER -> "default_service"

\* the paths whose service an App wraps in the Authentication transform:
\* none, as in server() and in the Apps of tests/helpers.rs, whose requests
\* without a readable identity are answered with success on every route; or
\* every route, when routes() wraps them
Wrappings == { {}, Paths }

\* tokens the server itself issued, under its own key
ServerTokens == { create_jwt(c, "none").val : c \in PrivateClaim }
\* tokens issued under another key
ForeignTokens ==
    { create_jwt_with(c, k, "none").val :
        c \in {x \in PrivateClaim : x.exp = MaxTime}, k \in Keys \ {config.jwt_key} }

\* what the identity service can hold for a request: nothing, or any string
Identities ==
    {NoIdentity} \cup ServerTokens \cup ForeignTokens \cup TamperedTokens
                 \cup MalformedTokens \cup BadPayloadTokens

\* HTTP responses and service errors
HttpResponse(status, body) == [kind |-> "response", status |-> status, body |-> body]
ServiceError(status, body) == [kind |-> "error", status |-> status, body |-> body]
Unauthorized_finish == HttpResponse(401, "")

\* enum ApiError: every variant, with a message it is built with
ApiErrors ==
    { Err("BadRequest", "duplicate key"),
      Err("BlockingError", "blocking"),
      Err("CacheError", "cache"),
      Err("CannotDecodeJwtToken", "InvalidToken"),
      Err("CannotEncodeJwtToken", "Json"),
      Err("InternalServerError", "Unknown database error"),
      Err("NotFound", "not found"),
      Err("ParseError", "invalid length"),
      Err("PoolError", "timed out"),
      Err("ValidationError", "validation"),
      Err("Unauthorized", "Invalid login") }

\* an error mapping that answers a token that does not decode with 401
error_response_decode_401(e) ==
    CASE e.err = "BadRequest" -> ServiceError(400, e.msg)
      [] e.err = "NotFound" -> ServiceError(404, e.msg)
      [] e.err = "ValidationError" -> ServiceError(422, e.msg)
      [] e.err \in {"Unauthorized", "CannotDecodeJwtToken"} -> ServiceError(401, e.msg)
      [] OTHER -> ServiceError(500, "")

\* ApiError::error_response: the status and body an error is answered with
error_response(e) ==
    CASE e.err = "BadRequest" -> ServiceError(400, e.msg)
      [] e.err = "NotFound" -> ServiceError(404, e.msg)
      [] e.err = "ValidationError" -> ServiceError(422, e.msg)
      [] e.err = "Unauthorized" -> ServiceError(401, e.msg)
      [] OTHER -> ServiceError(500, "")

\* what a business handler may return: Ok(response) or Err(ApiError)
HandlerResults ==
    { Ok(HttpResponse(200, "json")), Ok(HttpResponse(200, "")) } \cup ApiErrors

\* the unauthorized branch answering with the decoding error as its body
reject_response_with_cause(claims) == HttpResponse(401, claims.msg)

\* AuthenticationMiddleware::call, the unauthorized branch: the response is
\* HttpResponse::Unauthorized().finish(), whatever decode_jwt returned
reject_response(claims) == Unauthorized_finish

\* Uuid::to_string: the hyphenated text of the id
Uuid_to_string(user_id) == [hyphenated |-> user_id]

\* Uuid::parse_str on a text that Uuid::to_string produced
Uuid_parse_str(s) == Ok(s.hyphenated)

\* the gate taking the empty string whatever the identity service holds
identity_always_empty(identity) == EmptyString

\* Identity::get_identity(&req).unwrap_or("".into())
identity_or_empty(identity) ==
    IF identity = NoIdentity THEN EmptyString ELSE identity

\* the reject decision with the path comparison inverted
is_unauthorized_inverted(is_logged_in, path) ==
    ~is_logged_in /\ path = "/api/v1/auth/login"

\* the reject decision without the login exemption
is_unauthorized_no_exemption(is_logged_in, path) ==
    ~is_logged_in

\* AuthenticationMiddleware::call: the reject decision
is_unauthorized(is_logged_in, path) ==
    ~is_logged_in /\ path # "/api/v1/auth/login"

\* the returned future turning a service error into an empty 500 response
gate_result_swallow(res) ==
    IF res.kind = "error" THEN HttpResponse(500, "")
    ELSE HttpResponse(res.status, res.body)

\* AuthenticationMiddleware::call: let res = fut.await?; Ok(res)
gate_result(res) ==
    IF res.kind = "error" THEN ServiceError(res.status, res.body)
    ELSE HttpResponse(res.status, res.body)

\* AuthUser::from_request at clock value t
from_request_at(identity, t) ==
    IF identity # NoIdentity
    THEN LET r == decode_jwt_at(identity, t)
         IN  IF ~r.ok
             THEN Panic("called Result::unwrap() on an Err value")
             ELSE Ok([id |-> Uuid_to_string(r.val.user_id), email |-> r.val.email])
    ELSE Err("Unauthorized", "")

\* AuthUser::from_request: the clock is read inside decode_jwt
from_request(identity) == from_request_at(identity, now)

Init ==
    /\ config \in {c \in Configs : c.auth_salt = <<109, 97>>}
    /\ wrapped \in Wrappings
    /\ record_salt \in [create : {repeat(<<122, 65>>, Argon2MinSalt)},
                        login : {repeat(<<122, 65>>, Argon2MinSalt)}]
    /\ now = 0
    /\ CodecIdle
    /\ HashIdle
    /\ ReqIdle
    /\ SessIdle
    /\ ConcIdle
    /\ StateIdle
    /\ CrudIdle

\* a request arrives, for a route or for a method no route of the path
\* has, and goes to the service registered for its path
Receive ==
    /\ UNCHANGED <<handlerErr, awaited, fault>>
    /\ pc = "idle"
    /\ \E e \in Endpoints \cup {[method |-> "PUT", path |-> "/health"]},
          identity \in Identities :
         /\ req' = [method |-> e.method, path |-> e.path, identity |-> identity]
         /\ IF e.path \in wrapped
            THEN pc' = "gate" /\ UNCHANGED forwarded
            ELSE pc' = "service" /\ forwarded' = req'
    /\ params' = NoBody
    /\ UNCHANGED <<config, wrapped, record_salt, stateVars, crudVars, conc, sessVars, now, codecVars, hashVars, private_claim, gateAt,
                   unauthorized, calls, handler, authUser, authUserAt,
                   serviceResp, response>>

\* AuthenticationMiddleware::call, up to self.service.call(req)
Call ==
    /\ UNCHANGED <<handlerErr, awaited, fault>>
    /\ pc = "gate"
    /\ LET identity == identity_or_empty(req.identity)
           claims == decode_jwt(identity)
           is_logged_in == claims.ok
       IN  /\ private_claim' = claims
           /\ gateAt' = now
           /\ IF is_unauthorized(is_logged_in, req.path)
              THEN /\ unauthorized' = "yes"
                   /\ response' = reject_response(claims)
                   /\ pc' = "done"
                   /\ UNCHANGED <<calls, forwarded>>
              ELSE /\ unauthorized' = "no"
                   /\ calls' = calls + 1
                   /\ forwarded' = req
                   /\ pc' = "service"
                   /\ UNCHANGED response
    /\ UNCHANGED <<config, wrapped, record_salt, stateVars, crudVars, conc, sessVars, now, codecVars, hashVars, req, params, handler, authUser,
                   authUserAt, serviceResp>>

\* the framework runs the AuthUser extractor for a handler that declares it
FromRequest ==
    /\ UNCHANGED <<handlerErr, awaited, fault>>
    /\ pc = "service"
    /\ authUser = NoResult
    /\ handler = "none"
    /\ authUser' = from_request(forwarded.identity)
    /\ authUserAt' = now
    /\ IF authUser'.ok
       THEN UNCHANGED <<pc, serviceResp>>
       ELSE IF authUser'.err = "panic"
            THEN pc' = "panicked" /\ UNCHANGED serviceResp
            ELSE pc' = "respond" /\ serviceResp' = ServiceError(401, "")
    /\ UNCHANGED <<config, wrapped, record_salt, stateVars, crudVars, conc, sessVars, now, codecVars, hashVars, req, params, private_claim, gateAt,
                   unauthorized, calls, forwarded, handler, response>>

\* the handler registered for the path runs and answers
Handle ==
    /\ pc = "service"
    /\ handler' = routes(forwarded.method, forwarded.path)
    /\ UNCHANGED <<awaited, fault>>
    /\ \E result \in HandlerResults :
         /\ handlerErr' = IF result.ok THEN NoResult ELSE result
         /\ serviceResp' = IF result.ok THEN result.val ELSE error_response(result)
    /\ pc' = "respond"
    /\ UNCHANGED <<config, wrapped, record_salt, stateVars, crudVars, conc, sessVars, now, codecVars, hashVars, req, params, private_claim, gateAt,
                   unauthorized, calls, forwarded, authUser, authUserAt, response>>

\* the answer of the service goes back to the client, through the returned
\* future of AuthenticationMiddleware::call (res = fut.await?; Ok(res)) when
\* the service is wrapped
Respond ==
    /\ UNCHANGED <<handlerErr, awaited, fault>>
    /\ pc = "respond"
    /\ response' = IF req.path \in wrapped THEN gate_result(serviceResp)
                    ELSE serviceResp
    /\ pc' = "done"
    /\ UNCHANGED <<config, wrapped, record_salt, stateVars, crudVars, conc, sessVars, now, codecVars, hashVars, req, params, private_claim, gateAt,
                   unauthorized, calls, forwarded, handler, authUser, authUserAt,
                   serviceResp>>

\* the request is over; the per-request values are dropped
Finish ==
    /\ pc \in {"done", "panicked"}
    /\ pc' = "idle"
    /\ req' = NoRequest
    /\ params' = NoBody
    /\ private_claim' = NoResult
    /\ gateAt' = -1
    /\ unauthorized' = "unset"
    /\ calls' = 0
    /\ forwarded' = NoRequest
    /\ handler' = "none"
    /\ authUser' = NoResult
    /\ authUserAt' = -1
    /\ awaited' = NoResult
    /\ fault' = "none"
    /\ handlerErr' = NoResult
    /\ serviceResp' = NoResult
    /\ response' = NoResult
    /\ UNCHANGED <<config, wrapped, record_salt, stateVars, crudVars, conc, sessVars, now, codecVars, hashVars>>

Next ==
    \/ Tick
    \/ Receive
    \/ Call
    \/ FromRequest
    \/ Handle
    \/ Respond
    \/ Finish

Spec == Init /\ [][Next]_vars

-----------------------------------------------------------------------------
(* One client session: src/src/handlers/auth.rs, src/src/handlers/user.rs,
   src/src/models/user.rs *)

\* the record salts the two call sites of hash may pass, the calls naming
\* none: the same salt, two different salts, a salt argon2 refuses
RecordSalts ==
    [create : {repeat(<<122, 65>>, Argon2MinSalt), <<>>},
     login : {repeat(<<122, 65>>, Argon2MinSalt), repeat(<<48>>, Argon2MinSalt), <<>>}]

\* hash(&user.password) in User::from(NewUser)
hash_user_password(password) == hash(password, record_salt.create)

\* hash(&params.password) in login
hash_params_password(password) == hash(password, record_salt.login)

\* UserResponse::from(User): id is Uuid::parse_str(&user.id).unwrap()
UserResponse_from(user) == [id |-> Uuid_parse_str(user.id).val, email |-> user.email]

\* User::from(NewUser): the row stores the digest of the password
User_from(new_user) ==
    [id |-> new_user.id, email |-> new_user.email,
     password |-> hash_user_password(new_user.password).val]

\* what the database does for one call of a function of models/user.rs: it
\* answers ("none"), pool.get() hands out no connection in time ("pool"), or
\* the statement fails on its connection ("statement"); web::block(f).await
\* fails besides when its blocking thread is gone ("blocking")
DbOutcomes == {"none", "pool", "statement"}

\* From<PoolError>: ApiError::PoolError(error.to_string())
PoolFailure == Err("PoolError", "timed out")

\* From<DBError>, for an error other than a unique violation
UnknownDatabaseError == Err("InternalServerError", "Unknown database error")

\* From<BlockingError>: ApiError::InternalServerError(error.to_string())
BlockingFailure == Err("InternalServerError", "blocking")

\* let conn = pool.get()?; <statement>.execute(&conn)?;
execute(db) ==
    CASE db = "pool" -> PoolFailure
      [] db = "statement" -> UnknownDatabaseError
      [] OTHER -> Ok("()")

\* web::block(f).await: the results of the closure, or the BlockingError
block(results, outcome) ==
    IF outcome = "blocking" THEN {BlockingFailure} ELSE results

\* diesel::insert_into(users).values(new_user): the table with the row
diesel_insert(table, new_user) == table \cup {new_user}

\* models::user::create: pool.get()?, the INSERT, whose unique violation (a
\* row has the id, the primary key, of the new one) becomes BadRequest with
\* the message of the database by From<DBError>, then
\* Ok(new_user.clone().into())
create(table, new_user, db) ==
    IF ~execute(db).ok THEN execute(db)
    ELSE IF \E u \in table : u.id = new_user.id
    THEN Err("BadRequest", "duplicate key")
    ELSE Ok(UserResponse_from(new_user))

\* models::user::find_by_auth: pool.get()?, then a row with that email and
\* that password; every error of first(), no row or a failed statement, is
\* mapped to Unauthorized("Invalid login"); which of several matching rows
\* comes first is up to the database, so the possible results are a set
find_by_auth(table, user_email, user_password, db) ==
    LET found == { u \in table : u.email = user_email /\ u.password = user_password }
    IN  IF db = "pool" THEN { PoolFailure }
        ELSE IF db = "statement" \/ found = {}
        THEN { Err("Unauthorized", "Invalid login") }
        ELSE { Ok(UserResponse_from(u)) : u \in found }

\* format!("User {} not found", user_id)
not_found(user_id) == <<"User ", Uuid_to_string(user_id), " not found">>

\* models::user::find: pool.get()?, then the first row with that id; every
\* error of first(), no row or a failed statement, is mapped to NotFound
find(table, user_id, db) ==
    LET found == { u \in table : u.id = Uuid_to_string(user_id) }
    IN  IF db = "pool" THEN { PoolFailure }
        ELSE IF db = "statement" \/ found = {}
        THEN { Err("NotFound", not_found(user_id)) }
        ELSE { Ok(UserResponse_from(u)) : u \in found }

\* an UPDATE that inserts the row when no row has the id
diesel_update_upsert(table, update_user) ==
    LET set == { IF u.id = update_user.id
                 THEN [u EXCEPT !.email = update_user.email] ELSE u : u \in table }
    IN  IF \E u \in table : u.id = update_user.id THEN set
        ELSE set \cup {[id |-> update_user.id, email |-> update_user.email,
                        password |-> hash_user_password("password").val]}

\* models::user::update, its first statement: UPDATE users SET .. WHERE id = ..,
\* whatever the number of rows it changes
diesel_update(table, update_user) ==
    { IF u.id = update_user.id
      THEN [u EXCEPT !.email = update_user.email] ELSE u : u \in table }

\* models::user::update, its second statement: find with the parsed id, on
\* the table as it is by then
update_find(table, update_user, db) ==
    LET parsed == Uuid_parse_str(update_user.id)
    IN  IF parsed.ok THEN find(table, parsed.val, db) ELSE {parsed}

\* models::user::delete: DELETE FROM users WHERE id = ..
diesel_delete(table, user_id) == { u \in table : u.id # Uuid_to_string(user_id) }

\* whether the table holds a row for the id
is_stored(table, user_id) == \E u \in table : u.id = Uuid_to_string(user_id)

\* models::user::get_all: pool.get()?, users.load(&conn)?, every row as
\* UserResponses
get_all(table, db) ==
    IF execute(db).ok THEN Ok({ UserResponse_from(u) : u \in table }) ELSE execute(db)

\* the validator crate: the email check, and the minimal length of a password
is_email(s) == s \in Emails
MinPasswordLen == 6

\* a validation that lets every body through
validate_login_unchecked(p) == Ok(p)

\* validate(&params) for a LoginRequest
validate_login(p) ==
    IF is_email(p.email) /\ Len(p.password) >= MinPasswordLen
    THEN Ok(p)
    ELSE Err("ValidationError", "validation")

\* the validator crate: the minimal length of a first_name and of a last_name
MinNameLen == 3

\* validate(&params) for a CreateUserRequest
validate_create(p) ==
    IF /\ Len(p.first_name) >= MinNameLen
       /\ Len(p.last_name) >= MinNameLen
       /\ is_email(p.email)
       /\ Len(p.password) >= MinPasswordLen
    THEN Ok(p)
    ELSE Err("ValidationError", "validation")

\* validate(&params) for an UpdateUserRequest
validate_update(p) ==
    IF /\ Len(p.first_name) >= MinNameLen
       /\ Len(p.last_name) >= MinNameLen
       /\ is_email(p.email)
    THEN Ok(p)
    ELSE Err("ValidationError", "validation")

\* respond_json, respond_ok
respond_json == HttpResponse(200, "json")
respond_ok == HttpResponse(200, "")

\* login forgetting the stored identity when the credentials do not match
login_identity_forget(stored, found, jwt) ==
    IF found.ok THEN jwt ELSE NoIdentity

\* Identity::login failing to write the session; login discards the failure
LoginError == Err("LoginError", "session")

\* login: Identity::login(.., jwt) is reached only after find_by_auth and
\* create_jwt succeeded, and may itself fail; found is the outcome of the three
login_identity(stored, found, jwt) ==
    IF found.ok THEN jwt ELSE stored

\* logout leaving the identity in place
logout_identity_keep(identity) == identity

\* logout: if let Some(id) = identity { id.logout(); }
logout_identity(identity) ==
    IF identity # NoIdentity THEN NoIdentity ELSE identity

\* bodies of login requests: valid and invalid emails and passwords
LoginBodies ==
    [email : {"a@b.com"}, password : Passwords]
    \cup { [email |-> "nobody", password |-> "password"],
           [email |-> "a@b.com", password |-> "12345"] }

\* bodies of create_user requests: one that validates, one with an invalid
\* email and one with a short first_name
CreateUserBodies ==
    { [first_name |-> "Jane", last_name |-> "Doe", email |-> "c@d.com",
       password |-> "123456"],
      [first_name |-> "Jane", last_name |-> "Doe", email |-> "nobody",
       password |-> "123456"],
      [first_name |-> "Ja", last_name |-> "Doe", email |-> "c@d.com",
       password |-> "123456"] }

\* bodies of update_user requests: one that validates, one with an invalid
\* email and one with a short last_name
UpdateUserBodies ==
    { [first_name |-> "Jane", last_name |-> "Doe", email |-> "a@b.com"],
      [first_name |-> "Jane", last_name |-> "Doe", email |-> "nobody"],
      [first_name |-> "Jane", last_name |-> "Do", email |-> "a@b.com"] }

\* the server of the session: its token key is fixed
InitSession ==
    /\ config \in {c \in Configs : c.auth_salt = <<109, 97>> /\ c.jwt_key = "K1"}
    /\ wrapped \in Wrappings
    /\ record_salt \in RecordSalts
    /\ now = 0
    /\ CodecIdle
    /\ HashIdle
    /\ ReqIdle
    /\ SessIdle
    /\ ConcIdle
    /\ StateIdle
    /\ CrudIdle

\* the clock jumps ahead by the token lifetime
Sleep ==
    /\ now \div (config.jwt_expiration * SecondsPerHour) < MaxSleeps
    /\ now' = now + config.jwt_expiration * SecondsPerHour
    /\ UNCHANGED <<config, wrapped, record_salt, stateVars, crudVars, conc, codecVars,
                   hashVars, session, users, issued, issuedAt, loggedOut, pc, req, params,
                   private_claim, gateAt, unauthorized, calls, forwarded, handler,
                   authUser, authUserAt, awaited, fault, handlerErr, serviceResp, response>>

\* the users other clients sign up: each id with one password, and any email
NewUsers ==
    { [id |-> "u1", email |-> e, password |-> "password"] : e \in Emails }
    \cup { [id |-> "u2", email |-> e, password |-> "123456"] : e \in Emails }

\* create_user of another client, while the session's request may be in
\* flight: User::from(NewUser) with a fresh id, and the INSERT of
\* models::user::create when it is executed
ClientCreate ==
    /\ \E new_user \in NewUsers :
         /\ ~is_stored(users, new_user.id)
         /\ hash_user_password(new_user.password).ok
         /\ users' = diesel_insert(users, User_from([id |-> Uuid_to_string(new_user.id),
                                                     email |-> new_user.email,
                                                     password |-> new_user.password]))
    /\ UNCHANGED <<config, wrapped, record_salt, stateVars, crudVars, conc, now, codecVars,
                   hashVars, session, issued, issuedAt, loggedOut, pc, req, params,
                   private_claim, gateAt, unauthorized, calls, forwarded, handler,
                   authUser, authUserAt, awaited, fault, handlerErr, serviceResp, response>>

\* update_user of another client: the UPDATE of models::user::update, when it
\* is executed (a call that fails before leaves the table as it is)
ClientUpdate ==
    /\ \E id \in UserIds, email \in Emails :
         /\ users' = diesel_update(users, [id |-> Uuid_to_string(id), email |-> email])
    /\ UNCHANGED <<config, wrapped, record_salt, stateVars, crudVars, conc, now, codecVars,
                   hashVars, session, issued, issuedAt, loggedOut, pc, req, params,
                   private_claim, gateAt, unauthorized, calls, forwarded, handler,
                   authUser, authUserAt, awaited, fault, handlerErr, serviceResp, response>>

\* delete_user of another client: the DELETE of models::user::delete, when it
\* is executed
ClientDelete ==
    /\ \E id \in UserIds :
         /\ users' = diesel_delete(users, id)
    /\ UNCHANGED <<config, wrapped, record_salt, stateVars, crudVars, conc, now, codecVars,
                   hashVars, session, issued, issuedAt, loggedOut, pc, req, params,
                   private_claim, gateAt, unauthorized, calls, forwarded, handler,
                   authUser, authUserAt, awaited, fault, handlerErr, serviceResp, response>>

\* a request of the session arrives: it carries the identity the session
\* holds, and the body its handler takes
ReceiveSession ==
    /\ pc = "idle"
    /\ \E e \in Endpoints :
         /\ req' = [method |-> e.method, path |-> e.path, identity |-> session]
         /\ IF e.path \in wrapped
            THEN pc' = "gate" /\ UNCHANGED forwarded
            ELSE pc' = "service" /\ forwarded' = req'
         /\ params' \in CASE routes(e.method, e.path) = "login" -> LoginBodies
                          [] routes(e.method, e.path) = "create_user" -> CreateUserBodies
                          [] routes(e.method, e.path) = "update_user" -> UpdateUserBodies
                          [] OTHER -> {NoBody}
    /\ UNCHANGED <<config, wrapped, record_salt, stateVars, crudVars, conc, now, codecVars,
                   hashVars, session, users, issued, issuedAt, loggedOut, private_claim,
                   gateAt, unauthorized, calls, handler, authUser, authUserAt, awaited,
                   fault, handlerErr, serviceResp, response>>

\* handlers::auth::login up to block(..).await: validate(&params)?, hash
Login ==
    /\ pc = "service"
    /\ handler = "none"
    /\ routes(forwarded.method, forwarded.path) = "login"
    /\ handler' = "login"
    /\ LET valid == validate_login(params)
           hashed == hash_params_password(params.password)
       IN  IF ~valid.ok
           THEN /\ handlerErr' = valid
                /\ serviceResp' = error_response(valid)
                /\ pc' = "respond"
           ELSE IF ~hashed.ok
           THEN /\ pc' = "panicked"
                /\ UNCHANGED <<handlerErr, serviceResp>>
           ELSE /\ pc' = "blocked"
                /\ UNCHANGED <<handlerErr, serviceResp>>
    /\ UNCHANGED <<config, wrapped, record_salt, stateVars, crudVars, conc, now, codecVars,
                   hashVars, session, users, issued, issuedAt, loggedOut, req, params,
                   private_claim, gateAt, unauthorized, calls, forwarded, authUser,
                   authUserAt, awaited, fault, response>>

\* the closure of login on the blocking thread pool: find_by_auth on the
\* table as it is when the closure runs
FindByAuth ==
    /\ pc = "blocked"
    /\ handler = "login"
    /\ \E outcome \in DbOutcomes \cup {"blocking"} :
         /\ fault' = outcome
         /\ awaited' \in block(find_by_auth(users, params.email,
                                            hash_params_password(params.password).val,
                                            outcome),
                               outcome)
    /\ pc' = "resumed"
    /\ UNCHANGED <<config, wrapped, record_salt, stateVars, crudVars, conc, now, codecVars,
                   hashVars, session, users, issued, issuedAt, loggedOut, req, params,
                   private_claim, gateAt, unauthorized, calls, forwarded, handler,
                   authUser, authUserAt, handlerErr, serviceResp, response>>

\* handlers::auth::login after the await: PrivateClaim::new reads the clock,
\* create_jwt(..)?, let _ = Identity::login(..) whose failure is discarded,
\* Ok(Json(user)); the awaited user is moved into the response
LoginResume ==
    /\ pc = "resumed"
    /\ handler = "login"
    /\ \E outcome \in EncodeOutcomes :
         LET user == awaited
             created == IF user.ok
                        THEN create_jwt(PrivateClaim_new(user.val.id, user.val.email),
                                        outcome)
                        ELSE user
             jwt == IF created.ok THEN created.val ELSE NoIdentity
         IN  \E login \in {created, LoginError} :
               /\ session' = login_identity(session, login, jwt)
               /\ issued' = IF login.ok THEN jwt ELSE issued
               /\ issuedAt' = IF login.ok THEN now ELSE issuedAt
               /\ loggedOut' = IF login.ok THEN "no" ELSE loggedOut
               /\ handlerErr' = IF created.ok THEN NoResult ELSE created
               /\ serviceResp' = IF created.ok THEN respond_json
                                 ELSE error_response(created)
               /\ pc' = "respond"
    /\ awaited' = NoResult
    /\ fault' = "none"
    /\ UNCHANGED <<config, wrapped, record_salt, stateVars, crudVars, conc, now, codecVars,
                   hashVars, users, req, params, private_claim, gateAt, unauthorized,
                   calls, forwarded, handler, authUser, authUserAt, response>>

\* handlers::auth::logout
Logout ==
    /\ pc = "service"
    /\ handler = "none"
    /\ routes(forwarded.method, forwarded.path) = "logout"
    /\ handler' = "logout"
    /\ session' = logout_identity(forwarded.identity)
    /\ issued' = NoIdentity
    /\ issuedAt' = -1
    /\ loggedOut' = IF forwarded.identity # NoIdentity THEN "cleared" ELSE "nothing"
    /\ serviceResp' = respond_ok
    /\ pc' = "respond"
    /\ UNCHANGED <<config, wrapped, record_salt, stateVars, crudVars, conc, now, codecVars,
                   hashVars, users, req, params, private_claim, gateAt, unauthorized,
                   calls, forwarded, authUser, authUserAt, awaited, fault, handlerErr,
                   response>>

\* handlers::health::get_health
GetHealth ==
    /\ pc = "service"
    /\ handler = "none"
    /\ routes(forwarded.method, forwarded.path) = "get_health"
    /\ handler' = "get_health"
    /\ serviceResp' = respond_json
    /\ pc' = "respond"
    /\ UNCHANGED <<config, wrapped, record_salt, stateVars, crudVars, conc, now, codecVars,
                   hashVars, session, users, issued, issuedAt, loggedOut, req, params,
                   private_claim, gateAt, unauthorized, calls, forwarded, authUser,
                   authUserAt, awaited, fault, handlerErr, response>>

\* handlers::user::get_users up to block(..).await
GetUsers ==
    /\ pc = "service"
    /\ handler = "none"
    /\ routes(forwarded.method, forwarded.path) = "get_users"
    /\ handler' = "get_users"
    /\ pc' = "blocked"
    /\ UNCHANGED <<config, wrapped, record_salt, stateVars, crudVars, conc, now, codecVars,
                   hashVars, session, users, issued, issuedAt, loggedOut, req, params,
                   private_claim, gateAt, unauthorized, calls, forwarded, authUser,
                   authUserAt, awaited, fault, handlerErr, serviceResp, response>>

\* the closure of get_users on the blocking thread pool: get_all on the
\* table as it is when the closure runs
GetAll ==
    /\ pc = "blocked"
    /\ handler = "get_users"
    /\ \E outcome \in DbOutcomes \cup {"blocking"} :
         /\ fault' = outcome
         /\ awaited' \in block({get_all(users, outcome)}, outcome)
    /\ pc' = "resumed"
    /\ UNCHANGED <<config, wrapped, record_salt, stateVars, crudVars, conc, now, codecVars,
                   hashVars, session, users, issued, issuedAt, loggedOut, req, params,
                   private_claim, gateAt, unauthorized, calls, forwarded, handler,
                   authUser, authUserAt, handlerErr, serviceResp, response>>

\* handlers::user::get_user up to block(..).await
GetUser ==
    /\ pc = "service"
    /\ handler = "none"
    /\ routes(forwarded.method, forwarded.path) = "get_user"
    /\ handler' = "get_user"
    /\ pc' = "blocked"
    /\ UNCHANGED <<config, wrapped, record_salt, stateVars, crudVars, conc, now, codecVars,
                   hashVars, session, users, issued, issuedAt, loggedOut, req, params,
                   private_claim, gateAt, unauthorized, calls, forwarded, authUser,
                   authUserAt, awaited, fault, handlerErr, serviceResp, response>>

\* the closure of get_user on the blocking thread pool: find(&pool, *user_id)
\* on the table as it is when the closure runs
BlockFind ==
    /\ pc = "blocked"
    /\ handler = "get_user"
    /\ \E outcome \in DbOutcomes \cup {"blocking"} :
         /\ fault' = outcome
         /\ awaited' \in block(find(users, path_id(forwarded.path), outcome), outcome)
    /\ pc' = "resumed"
    /\ UNCHANGED <<config, wrapped, record_salt, stateVars, crudVars, conc, now, codecVars,
                   hashVars, session, users, issued, issuedAt, loggedOut, req, params,
                   private_claim, gateAt, unauthorized, calls, forwarded, handler,
                   authUser, authUserAt, handlerErr, serviceResp, response>>

\* handlers::user::create_user up to block(..).await: validate(&params)?,
\* Uuid::new_v4(), NewUser { .. }.into(), which hashes the password
CreateUser ==
    /\ pc = "service"
    /\ handler = "none"
    /\ routes(forwarded.method, forwarded.path) = "create_user"
    /\ handler' = "create_user"
    /\ LET valid == validate_create(params)
           hashed == hash_user_password(params.password)
       IN  IF ~valid.ok
           THEN /\ handlerErr' = valid
                /\ serviceResp' = error_response(valid)
                /\ pc' = "respond"
           ELSE IF ~hashed.ok
           THEN /\ pc' = "panicked"
                /\ UNCHANGED <<handlerErr, serviceResp>>
           ELSE /\ pc' = "blocked"
                /\ UNCHANGED <<handlerErr, serviceResp>>
    /\ UNCHANGED <<config, wrapped, record_salt, stateVars, crudVars, conc, now, codecVars,
                   hashVars, session, users, issued, issuedAt, loggedOut, req, params,
                   private_claim, gateAt, unauthorized, calls, forwarded, authUser,
                   authUserAt, awaited, fault, response>>

\* the closure of create_user on the blocking thread pool: create(&pool,
\* &new_user); the id is the one Uuid::new_v4() drew before the await, any id
\* whatever the table holds
BlockCreate ==
    /\ pc = "blocked"
    /\ handler = "create_user"
    /\ \E outcome \in DbOutcomes \cup {"blocking"}, user_id \in UserIds :
         LET new_user == User_from([id |-> Uuid_to_string(user_id),
                                    email |-> params.email,
                                    password |-> params.password])
             result == create(users, new_user, outcome)
         IN  /\ fault' = outcome
             /\ awaited' \in block({result}, outcome)
             /\ users' = IF outcome # "blocking" /\ result.ok
                         THEN diesel_insert(users, new_user) ELSE users
    /\ pc' = "resumed"
    /\ UNCHANGED <<config, wrapped, record_salt, stateVars, crudVars, conc, now, codecVars,
                   hashVars, session, issued, issuedAt, loggedOut, req, params,
                   private_claim, gateAt, unauthorized, calls, forwarded, handler,
                   authUser, authUserAt, handlerErr, serviceResp, response>>

\* handlers::user::update_user up to block(..).await: validate(&params)?
UpdateUser ==
    /\ pc = "service"
    /\ handler = "none"
    /\ routes(forwarded.method, forwarded.path) = "update_user"
    /\ handler' = "update_user"
    /\ LET valid == validate_update(params)
       IN  IF ~valid.ok
           THEN /\ handlerErr' = valid
                /\ serviceResp' = error_response(valid)
                /\ pc' = "respond"
           ELSE /\ pc' = "blocked"
                /\ UNCHANGED <<handlerErr, serviceResp>>
    /\ UNCHANGED <<config, wrapped, record_salt, stateVars, crudVars, conc, now, codecVars,
                   hashVars, session, users, issued, issuedAt, loggedOut, req, params,
                   private_claim, gateAt, unauthorized, calls, forwarded, authUser,
                   authUserAt, awaited, fault, response>>

\* the closure of update_user on the blocking thread pool, up to its first
\* statement: pool.get()?, the UPDATE; a failure here is what update returns
BlockUpdate ==
    /\ pc = "blocked"
    /\ handler = "update_user"
    /\ \E outcome \in DbOutcomes \cup {"blocking"} :
         /\ fault' = outcome
         /\ IF outcome = "none"
            THEN /\ users' = diesel_update(users,
                                [id |-> Uuid_to_string(path_id(forwarded.path)),
                                 email |-> params.email])
                 /\ pc' = "updated"
                 /\ UNCHANGED awaited
            ELSE /\ awaited' \in block({execute(outcome)}, outcome)
                 /\ pc' = "resumed"
                 /\ UNCHANGED users
    /\ UNCHANGED <<config, wrapped, record_salt, stateVars, crudVars, conc, now, codecVars,
                   hashVars, session, issued, issuedAt, loggedOut, req, params,
                   private_claim, gateAt, unauthorized, calls, forwarded, handler,
                   authUser, authUserAt, handlerErr, serviceResp, response>>

\* the same closure, its second statement on another connection of the
\* pool: find(&pool, Uuid::parse_str(&update_user.id)?) on the table as it is
\* by then
BlockUpdateFind ==
    /\ pc = "updated"
    /\ handler = "update_user"
    /\ \E outcome \in DbOutcomes :
         /\ fault' = outcome
         /\ awaited' \in update_find(users,
                            [id |-> Uuid_to_string(path_id(forwarded.path)),
                             email |-> params.email],
                            outcome)
    /\ pc' = "resumed"
    /\ UNCHANGED <<config, wrapped, record_salt, stateVars, crudVars, conc, now, codecVars,
                   hashVars, session, users, issued, issuedAt, loggedOut, req, params,
                   private_claim, gateAt, unauthorized, calls, forwarded, handler,
                   authUser, authUserAt, handlerErr, serviceResp, response>>

\* handlers::user::delete_user up to block(..).await
DeleteUser ==
    /\ pc = "service"
    /\ handler = "none"
    /\ routes(forwarded.method, forwarded.path) = "delete_user"
    /\ handler' = "delete_user"
    /\ pc' = "blocked"
    /\ UNCHANGED <<config, wrapped, record_salt, stateVars, crudVars, conc, now, codecVars,
                   hashVars, session, users, issued, issuedAt, loggedOut, req, params,
                   private_claim, gateAt, unauthorized, calls, forwarded, authUser,
                   authUserAt, awaited, fault, handlerErr, serviceResp, response>>

\* the closure of delete_user on the blocking thread pool: delete(&pool,
\* *user_id)
BlockDelete ==
    /\ pc = "blocked"
    /\ handler = "delete_user"
    /\ \E outcome \in DbOutcomes \cup {"blocking"} :
         /\ fault' = outcome
         /\ awaited' \in block({execute(outcome)}, outcome)
         /\ users' = IF outcome = "none"
                     THEN diesel_delete(users, path_id(forwarded.path)) ELSE users
    /\ pc' = "resumed"
    /\ UNCHANGED <<config, wrapped, record_salt, stateVars, crudVars, conc, now, codecVars,
                   hashVars, session, issued, issuedAt, loggedOut, req, params,
                   private_claim, gateAt, unauthorized, calls, forwarded, handler,
                   authUser, authUserAt, handlerErr, serviceResp, response>>

\* a handler of handlers/user.rs after its await: the error of
\* block(..).await?, or respond_json of what was awaited, which is moved into
\* the response; delete_user answers respond_ok
Resume ==
    /\ pc = "resumed"
    /\ handler \in {"get_users", "get_user", "create_user", "update_user", "delete_user"}
    /\ handlerErr' = IF awaited.ok THEN NoResult ELSE awaited
    /\ serviceResp' = IF ~awaited.ok THEN error_response(awaited)
                      ELSE IF handler = "delete_user" THEN respond_ok
                      ELSE respond_json
    /\ awaited' = NoResult
    /\ fault' = "none"
    /\ pc' = "respond"
    /\ UNCHANGED <<config, wrapped, record_salt, stateVars, crudVars, conc, now, codecVars,
                   hashVars, session, users, issued, issuedAt, loggedOut, req, params,
                   private_claim, gateAt, unauthorized, calls, forwarded, handler,
                   authUser, authUserAt, response>>

NextSession ==
    \/ Tick
    \/ Sleep
    \/ ClientCreate
    \/ ClientUpdate
    \/ ClientDelete
    \/ ReceiveSession
    \/ Call
    \/ Login
    \/ FindByAuth
    \/ LoginResume
    \/ Logout
    \/ GetHealth
    \/ GetUsers
    \/ GetAll
    \/ GetUser
    \/ BlockFind
    \/ CreateUser
    \/ BlockCreate
    \/ UpdateUser
    \/ BlockUpdate
    \/ BlockUpdateFind
    \/ DeleteUser
    \/ BlockDelete
    \/ Resume
    \/ Respond
    \/ Finish

SpecSession == InitSession /\ [][NextSession]_vars

-----------------------------------------------------------------------------
(* Requests handled at the same time, each by a worker of its own *)

\* what the identity service holds for the requests in flight
ConcIdentities ==
    { NoIdentity, EmptyString, <<OtherSegment>>,
      create_jwt([user_id |-> "u1", email |-> "a@b.com", exp |-> 1], "none").val,
      create_jwt([user_id |-> "u2", email |-> "c@d.com", exp |-> MaxTime], "none").val,
      create_jwt_with([user_id |-> "u1", email |-> "a@b.com", exp |-> MaxTime], "K2",
                      "none").val }

\* call(&self, req), from_request(req, ..): the request is the call's own argument
own_request(c, w) == c[w].req

InitConc ==
    /\ config \in {c \in Configs : c.auth_salt = <<109, 97>> /\ c.jwt_key = "K1"}
    /\ wrapped \in Wrappings
    /\ record_salt \in [create : {repeat(<<122, 65>>, Argon2MinSalt)},
                        login : {repeat(<<122, 65>>, Argon2MinSalt)}]
    /\ now = 0
    /\ CodecIdle
    /\ HashIdle
    /\ ReqIdle
    /\ SessIdle
    /\ ConcIdle
    /\ StateIdle
    /\ CrudIdle

\* a request arrives at an idle worker
ConcReceive(w) ==
    /\ conc[w].pc = "idle"
    /\ \E e \in {x \in Endpoints : x.path \in {LoginPath, UserPath}},
          identity \in ConcIdentities :
         conc' = [conc EXCEPT ![w].req = [method |-> e.method, path |-> e.path,
                                          identity |-> identity],
                              ![w].pc = IF e.path \in wrapped THEN "gate"
                                        ELSE "service"]
    /\ UNCHANGED <<config, wrapped, record_salt, stateVars, crudVars, now, sessVars, codecVars, hashVars, reqVars>>

\* AuthenticationMiddleware::call on that worker
ConcCall(w) ==
    /\ conc[w].pc = "gate"
    /\ LET request == own_request(conc, w)
           claims == decode_jwt(identity_or_empty(request.identity))
           reject == is_unauthorized(claims.ok, request.path)
       IN  conc' = [conc EXCEPT ![w].private_claim = claims,
                                ![w].gateAt = now,
                                ![w].unauthorized = IF reject THEN "yes" ELSE "no",
                                ![w].response = IF reject THEN reject_response(claims)
                                                ELSE NoResult,
                                ![w].pc = IF reject THEN "done" ELSE "service"]
    /\ UNCHANGED <<config, wrapped, record_salt, stateVars, crudVars, now, sessVars, codecVars, hashVars, reqVars>>

\* AuthUser::from_request on that worker
ConcFromRequest(w) ==
    /\ conc[w].pc = "service"
    /\ LET request == own_request(conc, w)
           user == from_request(request.identity)
       IN  conc' = [conc EXCEPT ![w].authUser = user,
                                ![w].authUserAt = now,
                                ![w].pc = IF ~user.ok /\ user.err = "panic"
                                          THEN "panicked" ELSE "done"]
    /\ UNCHANGED <<config, wrapped, record_salt, stateVars, crudVars, now, sessVars, codecVars, hashVars, reqVars>>

\* the request of that worker is over
ConcFinish(w) ==
    /\ conc[w].pc \in {"done", "panicked"}
    /\ conc' = [conc EXCEPT ![w] = WorkerIdle]
    /\ UNCHANGED <<config, wrapped, record_salt, stateVars, crudVars, now, sessVars, codecVars, hashVars, reqVars>>

NextConc ==
    \/ Tick
    \/ \E w \in Workers : ConcReceive(w)
    \/ \E w \in Workers : ConcCall(w)
    \/ \E w \in Workers : ConcFromRequest(w)
    \/ \E w \in Workers : ConcFinish(w)

SpecConc == InitConc /\ [][NextConc]_vars

-----------------------------------------------------------------------------
(* The users table accessed through src/src/models/user.rs, as by its tests *)

InitUsers ==
    /\ config \in {c \in Configs : c.auth_salt = <<109, 97>> /\ c.jwt_key = "K1"}
    /\ wrapped = {}
    /\ record_salt \in [create : {repeat(<<122, 65>>, Argon2MinSalt)},
                        login : {repeat(<<122, 65>>, Argon2MinSalt)}]
    /\ now = 0
    /\ CodecIdle
    /\ HashIdle
    /\ ReqIdle
    /\ SessIdle
    /\ ConcIdle
    /\ StateIdle
    /\ CrudIdle

\* create(&pool, &new_user.into()) with the id Uuid::new_v4() gave, any id
\* whatever the table holds
CreateRow ==
    /\ \E id \in UserIds, email \in Emails, password \in Passwords, db \in DbOutcomes :
         LET new_user == User_from([id |-> Uuid_to_string(id), email |-> email,
                                    password |-> password])
             result == create(users, new_user, db)
         IN  /\ hash_user_password(password).ok
             /\ users' = IF result.ok THEN diesel_insert(users, new_user) ELSE users
             /\ crud' = [op |-> "create", id |-> id, db |-> db,
                         stored |-> is_stored(users, id),
                         result |-> result,
                         storedAfter |-> is_stored(users', id)]
    /\ UNCHANGED <<config, wrapped, record_salt, stateVars, conc, now, codecVars, hashVars, reqVars,
                   session, issued, issuedAt, loggedOut, updating>>

\* find(&pool, user_id)
Find ==
    /\ \E id \in UserIds, db \in DbOutcomes :
         \E result \in find(users, id, db) :
           crud' = [op |-> "find", id |-> id, db |-> db,
                    stored |-> is_stored(users, id),
                    result |-> result, storedAfter |-> is_stored(users, id)]
    /\ UNCHANGED <<config, wrapped, record_salt, stateVars, conc, now, codecVars, hashVars, reqVars, sessVars,
                   updating>>

\* update(&pool, &update_user) on the blocking thread of worker w, up to its
\* first statement: pool.get()?, diesel::update(users).filter(..).set(..)
\* .execute(&conn)?; a failure here is what update returns
UpdateExecute(w) ==
    /\ updating[w] = NoResult
    /\ \E id \in UserIds, email \in Emails, db \in DbOutcomes :
         LET update_user == [id |-> Uuid_to_string(id), email |-> email]
             done == execute(db)
         IN  IF done.ok
             THEN /\ users' = diesel_update(users, update_user)
                  /\ updating' = [updating EXCEPT ![w] = update_user]
                  /\ UNCHANGED crud
             ELSE /\ crud' = [op |-> "update", id |-> id, db |-> db,
                              stored |-> is_stored(users, id),
                              result |-> done, storedAfter |-> is_stored(users, id)]
                  /\ UNCHANGED <<users, updating>>
    /\ UNCHANGED <<config, wrapped, record_salt, stateVars, conc, now, codecVars, hashVars, reqVars,
                   session, issued, issuedAt, loggedOut>>

\* update, its second statement, on another connection of the pool:
\* find(&pool, Uuid::parse_str(&update_user.id)?)
UpdateFind(w) ==
    /\ updating[w] # NoResult
    /\ \E db \in DbOutcomes :
         \E result \in update_find(users, updating[w], db) :
           LET id == Uuid_parse_str(updating[w].id).val
           IN  crud' = [op |-> "update", id |-> id, db |-> db,
                        stored |-> is_stored(users, id),
                        result |-> result, storedAfter |-> is_stored(users, id)]
    /\ updating' = [updating EXCEPT ![w] = NoResult]
    /\ UNCHANGED <<config, wrapped, record_salt, stateVars, conc, now, codecVars, hashVars, reqVars, sessVars>>

\* delete(&pool, user_id)
Delete ==
    /\ \E id \in UserIds, db \in DbOutcomes :
         LET done == execute(db)
         IN  /\ users' = IF done.ok THEN diesel_delete(users, id) ELSE users
             /\ crud' = [op |-> "delete", id |-> id, db |-> db,
                         stored |-> is_stored(users, id),
                         result |-> done, storedAfter |-> is_stored(users', id)]
    /\ UNCHANGED <<config, wrapped, record_salt, stateVars, conc, now, codecVars, hashVars, reqVars,
                   session, issued, issuedAt, loggedOut, updating>>

NextUsers ==
    \/ CreateRow
    \/ Find
    \/ \E w \in Workers : UpdateExecute(w)
    \/ \E w \in Workers : UpdateFind(w)
    \/ Delete

SpecUsers == InitUsers /\ [][NextUsers]_vars

-----------------------------------------------------------------------------
(* The shared application state, src/src/state.rs; the workers of the
   server call set, get and delete on one AppState at the same time *)

\* an insert that keeps the value of a key that is already present
HashMap_insert_if_absent(h, k, v) == IF h[k] = None THEN [h EXCEPT ![k] = v] ELSE h

\* HashMap::insert and ::remove: the map they leave behind (the value they
\* return is the one HashMap_get finds under the key beforehand);
\* HashMap::get: the value under the key, or None
HashMap_insert(h, k, v) == [h EXCEPT ![k] = v]
HashMap_remove(h, k) == [h EXCEPT ![k] = None]
HashMap_get(h, k) == h[k]

\* a lock that is handed out while another worker holds the guard
lock_unguarded(m, w) == TRUE

\* Mutex::lock returns once no other thread holds the guard
lock(m, w) == m = 0

InitState ==
    /\ config \in {c \in Configs : c.jwt_key = "K1" /\ c.auth_salt = <<109, 97>>}
    /\ wrapped = {}
    /\ record_salt \in [create : {repeat(<<122, 65>>, Argon2MinSalt)},
                        login : {repeat(<<122, 65>>, Argon2MinSalt)}]
    /\ now = 0
    /\ CodecIdle
    /\ HashIdle
    /\ ReqIdle
    /\ SessIdle
    /\ ConcIdle
    /\ StateIdle
    /\ CrudIdle

\* worker w enters set(data, key, value), get(data, key) or delete(data, key)
StateCall(w) ==
    /\ ops[w].pc = "idle"
    /\ \E op \in {"set", "get", "delete"}, key \in StateKeys, value \in StateValues :
         /\ (op # "set" => value = "123")
         /\ ops' = [ops EXCEPT ![w] =
                      [OpIdle EXCEPT !.pc = "lock", !.op = op, !.key = key,
                                     !.value = IF op = "set" THEN value ELSE None]]
    /\ UNCHANGED <<config, wrapped, record_salt, crudVars, now, codecVars, hashVars, reqVars, sessVars, conc,
                   hashmap, mutex, linear>>

\* data.lock().expect(..): w obtains the guard
StateLock(w) ==
    /\ ops[w].pc = "lock"
    /\ lock(mutex, w)
    /\ mutex' = w
    /\ ops' = [ops EXCEPT ![w].pc = "held", ![w].before = hashmap,
                          ![w].expect = linear[ops[w].key]]
    /\ linear' = CASE ops[w].op = "set" -> [linear EXCEPT ![ops[w].key] = ops[w].value]
                   [] ops[w].op = "delete" -> [linear EXCEPT ![ops[w].key] = None]
                   [] OTHER -> linear
    /\ UNCHANGED <<config, wrapped, record_salt, crudVars, now, codecVars, hashVars, reqVars, sessVars, conc,
                   hashmap>>

\* the map operation looks up the entry of the key
StateRead(w) ==
    /\ ops[w].pc = "held"
    /\ ops' = [ops EXCEPT ![w].pc = "found", ![w].ret = HashMap_get(hashmap, ops[w].key)]
    /\ UNCHANGED <<config, wrapped, record_salt, crudVars, now, codecVars, hashVars, reqVars, sessVars, conc,
                   hashmap, mutex, linear>>

\* the map operation stores or removes the entry; the function returns and
\* the guard is dropped
StateReturn(w) ==
    /\ ops[w].pc = "found"
    /\ hashmap' = CASE ops[w].op = "set" -> HashMap_insert(hashmap, ops[w].key, ops[w].value)
                    [] ops[w].op = "delete" -> HashMap_remove(hashmap, ops[w].key)
                    [] OTHER -> hashmap
    /\ ops' = [ops EXCEPT ![w].pc = "done", ![w].after = hashmap']
    /\ mutex' = IF mutex = w THEN 0 ELSE mutex
    /\ UNCHANGED <<config, wrapped, record_salt, crudVars, now, codecVars, hashVars, reqVars, sessVars, conc,
                   linear>>

\* the caller has taken the returned Option
StateDone(w) ==
    /\ ops[w].pc = "done"
    /\ ops' = [ops EXCEPT ![w] = OpIdle]
    /\ UNCHANGED <<config, wrapped, record_salt, crudVars, now, codecVars, hashVars, reqVars, sessVars, conc,
                   hashmap, mutex, linear>>

NextState ==
    \/ \E w \in Workers : StateCall(w)
    \/ \E w \in Workers : StateLock(w)
    \/ \E w \in Workers : StateRead(w)
    \/ \E w \in Workers : StateReturn(w)
    \/ \E w \in Workers : StateDone(w)

SpecState == InitState /\ [][NextState]_vars

-----------------------------------------------------------------------------
(* Properties *)

\* the clock value at which a server token expires
exp_of(tok) == from_json(tok[2].members).val.exp

\* C1: a request to a path other than the login path whose identity is absent,
\* empty or does not decode when the gate looks at it is answered with the
\* empty 401 response, and the wrapped service is not invoked for it.
C1_GateRejects ==
    (/\ gateAt # -1
     /\ req.path # LoginPath
     /\ ~decode_jwt_at(identity_or_empty(req.identity), gateAt).ok)
    => (/\ pc = "done"
        /\ response = Unauthorized_finish
        /\ calls = 0
        /\ handler = "none")

C1_Witness ==
    /\ pc = "done"
    /\ req.path = "/api/v1/user"
    /\ req.identity \in ServerTokens
    /\ exp_of(req.identity) < gateAt
    /\ response = Unauthorized_finish
    /\ calls = 0

\* C2: a request to the login path that carries no identity is not rejected
\* by the gate: it is forwarded and the wrapped service is invoked exactly once.
C2_GateExempts ==
    (/\ gateAt # -1
     /\ req.path = LoginPath
     /\ req.identity = NoIdentity)
    => (/\ unauthorized = "no"
        /\ calls = 1
        /\ forwarded = req)

C2_Witness ==
    /\ pc = "done"
    /\ req.path = LoginPath
    /\ req.identity = NoIdentity
    /\ calls = 1
    /\ handler = "login"
    /\ response = HttpResponse(200, "json")

\* C3: when the gate forwards, the wrapped service gets the request as it was
\* received, and the client gets exactly what the wrapped service answered,
\* be it a response or an error.
C3_ForwardUnchanged ==
    (unauthorized = "no")
    => (/\ forwarded = req
        /\ (pc = "done" => response = serviceResp))

C3_Witness ==
    /\ pc = "done"
    /\ unauthorized = "no"
    /\ req.identity # NoIdentity
    /\ serviceResp = ServiceError(404, "not found")
    /\ response = serviceResp

\* C4: no business handler runs before the gate has decided on the request,
\* and a handler of a path other than the login path runs only for a request
\* whose identity the gate decoded successfully.
C4_HandlerBehindGate ==
    (handler # "none")
    => (/\ gateAt # -1
        /\ (req.path # LoginPath => IsOk(private_claim)))

\* C5: the extractor returns an AuthUser only for an identity that is a
\* correctly signed, well-formed token read strictly before its expires_at.
C5_AuthUserOnlyBeforeExpiry ==
    IsOk(authUser)
    => (/\ forwarded.identity \in ServerTokens
        /\ authUserAt < exp_of(forwarded.identity))

\* C6: when the identity is absent, or present but not decodable, the
\* extractor completes with an Unauthorized error; it does not panic.
C6_ExtractorFailsUnauthorized ==
    (/\ authUser # NoResult
     /\ \/ forwarded.identity = NoIdentity
        \/ ~decode_jwt_at(forwarded.identity, authUserAt).ok)
    => authUser = Err("Unauthorized", "")

\* C7: a token made by create_jwt from a claim, decoded before the claim's
\* expires_at, yields that claim, equal in user_id, email and exp.
C7_RoundTrip ==
    (/\ tokenOrigin = "created"
     /\ decoded # NoResult
     /\ decodedAt < claim.exp)
    => decoded = Ok(claim)

C7_Witness ==
    /\ tokenOrigin = "created"
    /\ decoded = Ok(claim)
    /\ 0 < decodedAt
    /\ decodedAt < claim.exp

\* C8: a correctly signed token decodes only at clock values strictly before
\* its expires_at.
C8_StrictExpiry ==
    (/\ tokenOrigin = "created"
     /\ IsOk(decoded))
    => decodedAt < claim.exp

\* C9: a token made under another key, a token whose signature does not cover
\* its payload, and a malformed string (the empty string included) decode to
\* a CannotDecodeJwtToken error, never to claims.
C9_RejectsBadTokens ==
    (/\ tokenOrigin \in {"foreign", "tampered", "malformed"}
     /\ decoded # NoResult)
    => (~decoded.ok /\ decoded.err = "CannotDecodeJwtToken")

C9_Witness ==
    /\ tokenOrigin = "foreign"
    /\ decodedAt # -1
    /\ decodedAt < claim.exp
    /\ IsErr(decoded)
    /\ decoded.msg = "InvalidSignature"

\* C11: a call of hash with an empty record salt ends in an error value: it
\* neither yields a digest nor reaches the memory-hard function, whose refusal
\* of the salt would be a panic.
C11_EmptySaltRejected ==
    (/\ hashLast # NoResult
     /\ hashLast.salt = <<>>)
    => (/\ ~hashLast.result.ok
        /\ hashLast.result.err # "panic")

\* C13: any two requests the gate rejected got the same response, the empty
\* 401, whatever made the decoding of the one and of the other fail.
C13_UniformRejection ==
    \A v, w \in Workers :
        (/\ conc[v].unauthorized = "yes"
         /\ conc[w].unauthorized = "yes")
        => (/\ conc[v].response = conc[w].response
            /\ conc[v].response = HttpResponse(401, ""))

C13_Witness ==
    /\ conc[1].unauthorized = "yes"
    /\ conc[2].unauthorized = "yes"
    /\ conc[1].req.identity # NoIdentity
    /\ conc[1].private_claim.msg = "InvalidSignature"
    /\ conc[2].private_claim.msg = "ExpiredSignature"
    /\ conc[1].response = conc[2].response

\* a session is authenticated at clock value t when the identity it holds decodes
Authenticated(identity, t) ==
    identity # NoIdentity /\ decode_jwt_at(identity, t).ok

\* C14: the identity a session holds stops being authenticated only because
\* the clock passed the token's expires_at or because the logout handler
\* cleared it, and the step of the gate leaves the stored identity as it is.
C14_OnlyExpiryOrLogout ==
    [][/\ (/\ <<session, now>>' # <<session, now>>
           /\ Authenticated(session, now)
           /\ ~Authenticated(session', now'))
          => \/ (session' = session /\ now' > exp_of(session))
             \/ (handler = "none" /\ handler' = "logout" /\ session' = NoIdentity)
       /\ (pc = "gate" /\ pc' # "gate") => session' = session]_vars

C14_Witness ==
    /\ unauthorized = "yes"
    /\ session # NoIdentity
    /\ req.identity = session
    /\ exp_of(session) < gateAt

\* the exemption sets a pipeline may hand to the gate at construction
ExemptionSets == { {}, {LoginPath}, {LoginPath, "/health"} }

\* C15: whatever exemption set the pipeline is built with, a request without
\* a decodable identity is forwarded exactly when its path is in that set.
C15_ExemptionSetInjected ==
    \A E \in ExemptionSets :
        (/\ gateAt # -1
         /\ ~IsOk(private_claim))
        => (unauthorized = "no" <=> req.path \in E)

\* the handlers of the user routes
UserHandlers == {"get_users", "get_user", "create_user", "update_user", "delete_user"}

credentials(table) ==
    { [email |-> u.email, password |-> u.password.hex.argon2i] : u \in table }

C18_LogoutClears ==
    /\ (handler = "logout")
       => (/\ serviceResp = HttpResponse(200, "")
           /\ session = NoIdentity
           /\ (pc = "done" => response = HttpResponse(200, "")))
    /\ (/\ loggedOut # "no"
        /\ handler = "none"
        /\ gateAt # -1
        /\ req.path # LoginPath)
       => (/\ unauthorized = "yes"
           /\ response = Unauthorized_finish)

C18_Witness ==
    /\ loggedOut = "cleared"
    /\ pc = "done"
    /\ req.path = "/api/v1/user"
    /\ req.identity = NoIdentity
    /\ unauthorized = "yes"

\* C19: the token a login issued carries expires_at = the clock value at which
\* PrivateClaim::new ran + jwt_expiration hours, in the string made by
\* create_jwt and in the claims decode_jwt returns for it later.
C19_ExpiryIsIssuePlusLifetime ==
    (issued # NoIdentity)
    => (/\ exp_of(issued) = issuedAt + config.jwt_expiration * 3600
        /\ (req.identity = issued /\ IsOk(private_claim))
           => private_claim.val.exp = issuedAt + config.jwt_expiration * 3600)

C19_Witness ==
    /\ issued # NoIdentity
    /\ req.identity = issued
    /\ IsOk(private_claim)
    /\ 0 < issuedAt
    /\ issuedAt < gateAt
    /\ private_claim.val.exp = issuedAt + 7200

-----------------------------------------------------------------------------
\* C22: for every record salt and every non-empty secret, mask_str returns
\* exactly as many bytes as the record salt has, and byte i (from 0) is
\* (salt[i] + secret[i mod len(secret)]) mod 128; the 8-bit wrapping of the
\* sum does not change that value, and a salt shorter than the secret uses
\* only the first len(salt) secret bytes.
C22_MaskBytewise ==
    (/\ hashLast # NoResult
     /\ config.auth_salt # <<>>)
    => LET secret == config.auth_salt
           salt == hashLast.salt
           out == hashLast.masked
       IN  /\ out.ok
           /\ Len(out.val) = Len(salt)
           /\ \A i \in 0..(Len(salt) - 1) :
                 out.val[i + 1] = (salt[i + 1] + secret[(i % Len(secret)) + 1]) % 128

\* a salt longer than the secret whose first byte sum exceeds 255
C22_Witness ==
    /\ hashLast # NoResult
    /\ config.auth_salt # <<>>
    /\ Len(hashLast.salt) > Len(config.auth_salt)
    /\ hashLast.salt[1] + config.auth_salt[1] > 255
    /\ hashLast.masked.ok
    /\ Len(hashLast.masked.val) = Len(hashLast.salt)

\* C27: for every record salt and every non-empty secret, every byte of
\* mask_str's result is in 0..127, so the result is valid text and the
\* conversion after masking never fails, under any configuration.
C27_MaskedIsAscii ==
    hashLast # NoResult
    => /\ (config.auth_salt # <<>>
            => /\ hashLast.masked.ok
               /\ \A i \in 1..Len(hashLast.masked.val) :
                     hashLast.masked.val[i] \in 0..127
               /\ is_utf8(hashLast.masked.val))
       /\ (~hashLast.masked.ok
            => hashLast.masked.msg # "called Result::unwrap() on an Err value: FromUtf8Error")

\* a salt and a secret that both hold bytes above 127, masked to ASCII
C27_Witness ==
    /\ hashLast # NoResult
    /\ \E i \in 1..Len(hashLast.salt) : hashLast.salt[i] > 127
    /\ \E i \in 1..Len(config.auth_salt) : config.auth_salt[i] > 127
    /\ hashLast.masked.ok
    /\ \A i \in 1..Len(hashLast.masked.val) : hashLast.masked.val[i] < 128

-----------------------------------------------------------------------------
\* C21: the application state is a key-value map: set returns the previous
\* value of the key or None and stores the new value; get returns the stored
\* value, which is that of the last set on the key not followed by a delete,
\* or None; delete returns the removed value or None and leaves the key
\* absent; no call changes another key.
C21_KeyValueMap ==
    \A w \in Workers :
      ops[w].pc = "done"
      => LET o == ops[w]
         IN  /\ o.ret = o.before[o.key]
             /\ (o.op = "get" => o.ret = o.expect)
             /\ (o.op = "set" => o.after[o.key] = o.value)
             /\ (o.op = "delete" => o.after[o.key] = None)
             /\ (o.op = "get" => o.after[o.key] = o.before[o.key])
             /\ \A k \in StateKeys \ {o.key} : o.after[k] = o.before[k]

\* a set that replaces a stored value while the other key holds one too
C21_Witness ==
    \E w \in Workers :
      /\ ops[w].pc = "done"
      /\ ops[w].op = "set"
      /\ ops[w].ret # None
      /\ ops[w].ret # ops[w].value
      /\ \E k \in StateKeys \ {ops[w].key} : ops[w].after[k] # None

\* C28: set, get and delete are atomic with respect to each other: a call
\* holds the mutex from its lookup to its update, no two calls hold it at
\* once, every returned value is the one the call returns when the calls are
\* run one at a time in the order they took the mutex, and when no call holds
\* the mutex the map is the result of that sequential run (no update lost).
C28_Atomic ==
    /\ \A w \in Workers : ops[w].pc \in {"held", "found"} => mutex = w
    /\ \A w \in Workers : ops[w].pc \in {"found", "done"} => ops[w].ret = ops[w].expect
    /\ (mutex = 0 => hashmap = linear)

\* one worker has returned from a set while the other waits for the mutex
\* it took; the waiting call will see that update
C28_Witness ==
    \E w \in Workers : \E v \in Workers \ {w} :
      /\ ops[w].pc = "found"
      /\ ops[w].op = "set"
      /\ ops[w].ret # None
      /\ ops[v].pc = "lock"
      /\ ops[v].op = "set"
      /\ ops[v].key = ops[w].key
      /\ mutex = w

-----------------------------------------------------------------------------
\* C25: every ApiError a handler returns is answered with one status:
\* BadRequest 400, NotFound 404, ValidationError 422, Unauthorized 401, and
\* every other variant, CannotEncodeJwtToken and CannotDecodeJwtToken
\* included, 500.
C25_ErrorStatus ==
    (/\ handlerErr # NoResult
     /\ pc \in {"respond", "done"})
    => LET status == IF pc = "done" THEN response.status ELSE serviceResp.status
       IN  /\ (handlerErr.err = "BadRequest" => status = 400)
           /\ (handlerErr.err = "NotFound" => status = 404)
           /\ (handlerErr.err = "ValidationError" => status = 422)
           /\ (handlerErr.err = "Unauthorized" => status = 401)
           /\ (handlerErr.err \notin {"BadRequest", "NotFound", "ValidationError",
                                      "Unauthorized"} => status = 500)
           /\ handlerErr \in ApiErrors

\* a handler failed to decode a token and the client got the empty 500
C25_Witness ==
    /\ pc = "done"
    /\ handlerErr # NoResult
    /\ handlerErr.err = "CannotDecodeJwtToken"
    /\ response.status = 500
    /\ response.body = ""

-----------------------------------------------------------------------------
\* C23: login checks the body, then looks the credentials up, then creates
\* the token, and only then sets the session identity, to a token carrying
\* the id and email of the user it found; a body that fails validation is
\* answered with ValidationError without any lookup, a lookup that finds no
\* user with Unauthorized, a failed token creation with
\* CannotEncodeJwtToken, and whenever login returns an error the session
\* identity stays what it was.
C23_LoginOrder ==
    /\ []((/\ handler = "login"
           /\ pc \in {"respond", "done"})
          => LET wellFormed == /\ params.email \in Emails
                               /\ Len(params.password) >= MinPasswordLen
             IN  /\ (~wellFormed => /\ handlerErr # NoResult
                                    /\ handlerErr.err = "ValidationError"
                                    /\ serviceResp.status = 422)
                 /\ (handlerErr # NoResult
                       => /\ handlerErr.err \in {"ValidationError", "Unauthorized",
                                                 "CannotEncodeJwtToken", "PoolError",
                                                 "InternalServerError"}
                          /\ serviceResp.kind = "error"
                          /\ session = req.identity)
                 /\ (handlerErr = NoResult
                       => wellFormed /\ serviceResp = respond_json))
    /\ [][/\ (handler = "none" /\ handler' = "login")
             => /\ session' = session
                /\ awaited' = NoResult
                /\ (~(/\ params.email \in Emails
                      /\ Len(params.password) >= MinPasswordLen) => pc' = "respond")
          /\ (handler = "login" /\ pc = "blocked") => session' = session
          /\ (handler = "login" /\ pc = "resumed" /\ pc' = "respond")
             => IF ~awaited.ok
                THEN /\ handlerErr' = awaited
                     /\ session' = session
                     /\ (awaited.err = "Unauthorized" => serviceResp'.status = 401)
                ELSE \/ /\ handlerErr' # NoResult
                        /\ handlerErr'.err = "CannotEncodeJwtToken"
                        /\ serviceResp'.status = 500
                        /\ session' = session
                     \/ /\ handlerErr' = NoResult
                        /\ \/ session' = session
                           \/ /\ session' # NoIdentity
                              /\ LET c == from_json(session'[2].members).val
                                 IN  /\ c.user_id = awaited.val.id
                                     /\ c.email = awaited.val.email]_vars

\* the token of a user that was found could not be encoded: login answers
\* 500 with CannotEncodeJwtToken, and the identity of an earlier login is
\* still in the session
C23_Witness ==
    /\ handler = "login"
    /\ pc = "done"
    /\ validate_login(params).ok
    /\ handlerErr = Err("CannotEncodeJwtToken", "Json")
    /\ response = ServiceError(500, "")
    /\ session # NoIdentity
    /\ session = req.identity

-----------------------------------------------------------------------------
\* C24: the gate and the extractor agree when they read the same clock
\* value: for a request the gate classified as authenticated the extractor
\* returns the AuthUser of the decoded claims (id the text of user_id, the
\* same email), and for a request the gate let through only because its
\* route is exempt the extractor fails with Unauthorized.
C24_GateExtractorAgree ==
    (/\ authUser # NoResult
     /\ unauthorized = "no"
     /\ authUserAt = gateAt)
    => /\ (private_claim.ok
            => authUser = Ok([id |-> Uuid_to_string(private_claim.val.user_id),
                              email |-> private_claim.val.email]))
       /\ (~private_claim.ok => authUser = Err("Unauthorized", ""))

-----------------------------------------------------------------------------
\* C26, as stated: an id without a stored row is never reported as found:
\* find of such an id returns NotFound("User <id> not found"); update of an
\* id that has no row when it returns fails, and no step other than a create
\* gives an id a row; after a delete that succeeded, a find or update of the
\* same id that returns next fails.
C26_MissingNeverFound ==
    /\ [](crud # NoResult
          => /\ ((crud.op = "find" /\ ~crud.stored)
                    => /\ ~crud.result.ok
                       /\ crud.result.err = "NotFound"
                       /\ crud.result.msg = not_found(crud.id))
             /\ ((crud.op = "update" /\ ~crud.stored) => ~crud.result.ok)
             /\ ((crud.op \in {"find", "update"} /\ crud.result.ok)
                    => crud.stored /\ crud.result.val.id = crud.id))
    /\ [][/\ \A id \in UserIds :
               (is_stored(users', id) /\ ~is_stored(users, id))
               => (crud' # NoResult /\ crud'.op = "create" /\ crud'.id = id)
          /\ (/\ crud # NoResult
              /\ crud.op = "delete"
              /\ crud.result.ok
              /\ crud'.op \in {"find", "update"}
              /\ crud'.id = crud.id)
             => ~crud'.result.ok]_vars

\* C26, amended: find of an id without a stored row returns an error, which
\* is NotFound("User <id> not found") whenever find gets a connection, and
\* PoolError when it gets none; the rest as stated: update of an id that has
\* no row when it returns fails (with that NotFound when its find ran on a
\* connection), a find or update that returns Ok returns a stored row with
\* that id, no step other than a create that succeeded gives an id a row, a
\* delete that succeeded leaves the id without a row, and a find or update
\* of the same id that returns next fails.
C26_MissingIsAnError ==
    /\ [](crud # NoResult
          => /\ ((crud.op = "find" /\ ~crud.stored)
                    => /\ ~crud.result.ok
                       /\ IF crud.db = "pool" THEN crud.result.err = "PoolError"
                          ELSE /\ crud.result.err = "NotFound"
                               /\ crud.result.msg = not_found(crud.id))
             /\ ((crud.op = "update" /\ ~crud.stored)
                    => /\ ~crud.result.ok
                       /\ (crud.db = "none"
                             => /\ crud.result.err = "NotFound"
                                /\ crud.result.msg = not_found(crud.id)))
             /\ ((crud.op \in {"find", "update"} /\ crud.result.ok)
                    => crud.stored /\ crud.result.val.id = crud.id)
             /\ ((crud.op = "delete" /\ crud.result.ok) => ~crud.storedAfter))
    /\ [][/\ \A id \in UserIds :
               (is_stored(users', id) /\ ~is_stored(users, id))
               => (/\ crud' # NoResult
                   /\ crud'.op = "create"
                   /\ crud'.id = id
                   /\ crud'.result.ok)
          /\ (/\ crud # NoResult
              /\ crud.op = "delete"
              /\ crud.result.ok
              /\ crud'.op \in {"find", "update"}
              /\ crud'.id = crud.id)
             => ~crud'.result.ok]_vars

\* an update of an id without a row failed with NotFound while the table
\* holds another user and the other worker is between its UPDATE and its find
C26_Witness ==
    /\ crud # NoResult
    /\ crud.op = "update"
    /\ crud.db = "none"
    /\ ~crud.stored
    /\ crud.result = Err("NotFound", not_found(crud.id))
    /\ users # {}
    /\ \E w \in Workers : updating[w] # NoResult

====
